---------------------------- MODULE Spec2Model ----------------------------
(***************************************************************************)
(* use-session-storage-state: a React hook that binds a component's state  *)
(* to window.sessionStorage.  The model follows                             *)
(* src/src/useSessionStorageState.ts: the process-wide `inMemoryData` map   *)
(* and `callbacks` set, and per mounted hook instance ("cell") the          *)
(* `storageItem` ref, the value useSyncExternalStore last returned to the   *)
(* render and the memoised result of useMemo.                               *)
(*                                                                         *)
(* JavaScript values are modelled as pairs <<type, n>>; only primitives    *)
(* (undefined and small numbers) are modelled, for which === is equality.  *)
(* Stored strings are TLA+ strings holding the actual text.                *)
(***************************************************************************)
EXTENDS Integers, Sequences, FiniteSets, TLC

\* ------------------------------------------------------------- bounds ----
MaxNum == 0        \* the numbers 0..MaxNum are the defined values
MaxCells == 2      \* hook instances that can be mounted at the same time
MaxSeedWrites == 2 \* the count of default-seeding writes per key stops here
MaxSubscribers == 3 \* callbacks registered with the hub in SpecPublish

Keys == {"k1", "k2"}
Cells == 1..MaxCells

\* ------------------------------------------------------------- values ----
undefined == <<"undefined", 0>>
Num(n) == <<"number", n>>
Values == {undefined} \cup {Num(n) : n \in 0..MaxNum}

\* `null`: the absence of an item, what getItem() returns for a missing key.
\* It is no string a serializer produces.
null == "<null>"
\* absence of a key in the inMemoryData map (Map.has(key) is false)
NoEntry == <<"no entry", 0>>

\* JSON.stringify on the modelled values.  JSON.stringify(undefined) is the
\* value undefined, which Storage.setItem() coerces to the text "undefined".
JSONstringify(v) == IF v = undefined THEN "undefined" ELSE ToString(v[2])

\* JSON.parse: [ok |-> FALSE] stands for a thrown SyntaxError.
JSONparse(s) ==
    IF \E n \in 0..(MaxNum + 1) : ToString(n) = s
    THEN [ok |-> TRUE, v |-> Num(CHOOSE n \in 0..(MaxNum + 1) : ToString(n) = s)]
    ELSE [ok |-> FALSE, v |-> undefined]

\* a parser without the special case: the text "undefined" is no JSON
parseJSON_NoUndefinedCase(s) == JSONparse(s)

\* parseJSON: JSON.parse that maps the text "undefined" to the value undefined
parseJSON(s) ==
    IF s = "undefined" THEN [ok |-> TRUE, v |-> undefined] ELSE JSONparse(s)

\* options.serializer: absent ("default": parseJSON / JSON.stringify) or the
\* global JSON object ("JSON": JSON.parse / JSON.stringify).
Serializers == {"default", "JSON"}
stringify(ser, v) == JSONstringify(v)
parse(ser, s) == IF ser = "default" THEN parseJSON(s) ELSE JSONparse(s)

\* what another browsing context may leave in the store
RawItems == {JSONstringify(v) : v \in Values} \cup {"some random string"}

\* ------------------------------------------------------------- state -----
VARIABLES
    store,          \* sessionStorage: key -> text or null
    inMemoryData,   \* the in-memory fallback: key -> value or NoEntry
    callbacks,      \* the `callbacks` set, in insertion order: sequence of cells
    cells,          \* per hook instance: options, storageItem ref, rendered result
    last,           \* the operation that produced this state (history)
    raised,         \* the last operation threw an error to its caller (history)
    seedWrites,     \* key -> default-seeding writes so far (history, kept by
                    \* SpecSeeding only)
    publish         \* the triggerCallbacks() call in progress, callback by
                    \* callback (SpecPublish only)

vars == <<store, inMemoryData, callbacks, cells, last, raised, seedWrites, publish>>

\* How sessionStorage behaves while one handler runs: "ok"; "quota": setItem()
\* throws (quota exceeded, private mode); "denied": every access to
\* sessionStorage throws (SecurityError).
StorageModes == {"ok", "quota", "denied"}

\* e.storageArea of a "storage" event
StorageAreas == {"sessionStorage", "localStorage"}

\* useRef({ string: null, parsed: undefined })
InitStorageItem == [string |-> null, parsed |-> undefined]

\* an unmounted instance
NoCell ==
    [active |-> FALSE, key |-> "k1", defaultValue |-> undefined,
     serializer |-> "default", storageSync |-> TRUE, storageItem |-> InitStorageItem,
     value |-> undefined, isPersistent |-> TRUE]

Op(op, c) == [op |-> op, cell |-> c]

\* ------------------------------------------------------ sessionStorage ---
\* goodTry(() => sessionStorage.getItem(key)) ?? null
sessionStorage_getItem(st, mode, k) == IF mode = "denied" THEN null ELSE st[k]

\* sessionStorage.setItem() throws
sessionStorage_setItemThrows(mode) == mode # "ok"

\* goodTry(() => sessionStorage.removeItem(key))
sessionStorage_removeItem(st, mode, k) == IF mode = "denied" THEN st ELSE [st EXCEPT ![k] = null]

\* sessionStorage.getItem() / sessionStorage.removeItem() / the evaluation of
\* `sessionStorage` itself throws
sessionStorage_accessThrows(mode) == mode = "denied"

\* (mutant) goodTry without its catch: the error reaches the caller
goodTryRaises_Rethrows(threw) == threw

\* goodTry(tryFn) raises to its caller when tryFn throws: never, `catch {}`
\* swallows the error
goodTryRaises(threw) == FALSE

\* ------------------------------------------------------- getSnapshot -----
\* The parsed value after the first half of getSnapshot.
SnapshotParsed(cell, string, mem) ==
    IF mem[cell.key] # NoEntry
    THEN mem[cell.key]
    ELSE IF string # cell.storageItem.string
         THEN IF string = null
              THEN cell.defaultValue
              ELSE LET p == parse(cell.serializer, string)
                   IN IF p.ok THEN p.v ELSE cell.defaultValue
         ELSE cell.storageItem.parsed

\* (mutant) the default is written whatever item the store holds
SeedCondition_IgnoresStoredItem(cell, string) == cell.defaultValue # undefined

\* (mutant) an absent default is written too
SeedCondition_IgnoresAbsentDefault(cell, string) == string = null

\* getSnapshot writes the default value when this holds
SeedCondition(cell, string) == string = null /\ cell.defaultValue # undefined

\* (mutant) the seeding step caches the default but never calls setItem()
getSnapshot_SeedNotWritten(cell, st, mem, mode) ==
    LET string == sessionStorage_getItem(st, mode, cell.key)
        parsed == SnapshotParsed(cell, string, mem)
        seeded == SeedCondition(cell, string) /\ ~sessionStorage_setItemThrows(mode)
        text == stringify(cell.serializer, cell.defaultValue)
    IN [storageItem |->
            IF seeded THEN [string |-> text, parsed |-> cell.defaultValue]
                      ELSE [string |-> string, parsed |-> parsed],
        store |-> st]

\* getSnapshot of one cell: the new storageItem ref and the store after it.
getSnapshot(cell, st, mem, mode) ==
    LET string == sessionStorage_getItem(st, mode, cell.key)
        parsed == SnapshotParsed(cell, string, mem)
        seeded == SeedCondition(cell, string) /\ ~sessionStorage_setItemThrows(mode)
        text == stringify(cell.serializer, cell.defaultValue)
    IN [storageItem |->
            IF seeded THEN [string |-> text, parsed |-> cell.defaultValue]
                      ELSE [string |-> string, parsed |-> parsed],
        store |-> IF seeded THEN [st EXCEPT ![cell.key] = text] ELSE st]

\* getSnapshot raises: its storage accesses are the goodTry of getItem() and
\* the goodTry around the seeding setItem(); parse() runs inside try/catch.
getSnapshotRaises(cell, st, mode) ==
    LET string == sessionStorage_getItem(st, mode, cell.key)
    IN \/ goodTryRaises(sessionStorage_accessThrows(mode))
       \/ goodTryRaises(SeedCondition(cell, string) /\ sessionStorage_setItemThrows(mode))

\* (mutant) isPersistent without the `value === defaultValue` disjunct
isPersistentMemo_OnlyFallback(value, defaultValue, mem, k) == mem[k] = NoEntry

\* (mutant) isPersistent without the `!inMemoryData.has(key)` disjunct
isPersistentMemo_OnlyDefault(value, defaultValue, mem, k) == value = defaultValue

\* isPersistent as the useMemo factory computes it
isPersistentMemo(value, defaultValue, mem, k) == value = defaultValue \/ mem[k] = NoEntry

\* ---------------------------------------------------- triggerCallbacks ---
\* onStoreChange of useSyncExternalStore for cell c: React reads the snapshot
\* (and re-renders later when it differs from the value last rendered).
onStoreChange(cs, st, mem, mode, c) ==
    LET r == getSnapshot(cs[c], st, mem, mode)
    IN [cells |-> [cs EXCEPT ![c].storageItem = r.storageItem], store |-> r.store]

\* (mutant) onChange without its test: every callback reacts to every key
onChangeMatches_AnyKey(key, sessionKey) == TRUE

\* onChange: `if (key === sessionKey)`
onChangeMatches(key, sessionKey) == key = sessionKey

\* for (const callback of [...callbacks]) callback(key), from position i
RECURSIVE TriggerFrom(_, _, _, _, _, _, _)
TriggerFrom(i, cbs, k, cs, st, mem, mode) ==
    IF i > Len(cbs)
    THEN [cells |-> cs, store |-> st]
    ELSE IF onChangeMatches(cs[cbs[i]].key, k)
         THEN LET r == onStoreChange(cs, st, mem, mode, cbs[i])
              IN TriggerFrom(i + 1, cbs, k, r.cells, r.store, mem, mode)
         ELSE TriggerFrom(i + 1, cbs, k, cs, st, mem, mode)

\* (mutant) the publish reaches the callback of every mounted instance,
\* whether it is still in `callbacks` or not
triggerCallbacks_EveryInstance(k, cs, st, mem, mode) ==
    TriggerFrom(1, SelectSeq([i \in 1..MaxCells |-> i], LAMBDA x : cs[x].active),
                k, cs, st, mem, mode)

triggerCallbacks(k, cs, st, mem, mode) == TriggerFrom(1, callbacks, k, cs, st, mem, mode)

\* triggerCallbacks(k) raises: one of the snapshots it makes React read does
triggerCallbacksRaises(k, cs, st, mode) ==
    \E i \in 1..Len(callbacks) :
        cs[callbacks[i]].key = k /\ getSnapshotRaises(cs[callbacks[i]], st, mode)

\* React has a re-render of cell c scheduled: the snapshot read by
\* onStoreChange differs from the value the last render returned.
RenderScheduled(c) == cells[c].active /\ cells[c].storageItem.parsed # cells[c].value

\* no triggerCallbacks() call is in progress
NoPublish == [active |-> FALSE, begin |-> <<>>, snapshot |-> <<>>, pos |-> 1,
              invoked |-> [s \in 1..MaxSubscribers |-> 0],
              phase |-> "idle", cell |-> 0, value |-> undefined, mode |-> "ok"]

\* ------------------------------------------------------------ actions ----
Init ==
    /\ store = [k \in Keys |-> null]
    /\ inMemoryData = [k \in Keys |-> NoEntry]
    /\ callbacks = <<>>
    /\ cells = [c \in Cells |-> NoCell]
    /\ last = Op("init", 0)
    /\ raised = FALSE
    /\ seedWrites = [k \in Keys |-> 0]
    /\ publish = NoPublish

\* First render of useSessionStorageState(k, {defaultValue: d, storageSync:
\* sync, serializer: ser})
\* and the subscription made when it commits.  Instances are numbered in
\* the order of their slots: the lowest free slot is taken.
Mount(c, k, d, sync, ser, mode) ==
    /\ ~cells[c].active
    /\ \A b \in Cells : b < c => cells[b].active
    /\ LET fresh == [NoCell EXCEPT !.active = TRUE, !.key = k,
                                   !.defaultValue = d, !.storageSync = sync,
                                   !.serializer = ser]
           r == getSnapshot(fresh, store, inMemoryData, mode)
           value == r.storageItem.parsed
       IN /\ cells' = [cells EXCEPT ![c] =
                 [fresh EXCEPT !.storageItem = r.storageItem,
                               !.value = value,
                               !.isPersistent = isPersistentMemo(value, d, inMemoryData, k)]]
          /\ store' = r.store
          /\ raised' = getSnapshotRaises(fresh, store, mode)
    /\ callbacks' = Append(callbacks, c)
    /\ last' = Op("mount", c)
    /\ UNCHANGED inMemoryData

\* The component unmounts: the subscription's cleanup runs.
Unmount(c) ==
    /\ cells[c].active
    /\ cells' = [cells EXCEPT ![c] = NoCell]
    /\ callbacks' = SelectSeq(callbacks, LAMBDA x : x # c)
    /\ last' = Op("unmount", c)
    /\ raised' = FALSE
    /\ UNCHANGED <<store, inMemoryData>>

\* A render of a mounted instance: useSyncExternalStore reads the snapshot,
\* useMemo recomputes the result only when `value` changed.
Render(c, mode) ==
    /\ cells[c].active
    /\ LET r == getSnapshot(cells[c], store, inMemoryData, mode)
           value == r.storageItem.parsed
       IN /\ cells' = [cells EXCEPT
                 ![c].storageItem = r.storageItem,
                 ![c].value = value,
                 ![c].isPersistent =
                     IF value # cells[c].value
                     THEN isPersistentMemo(value, cells[c].defaultValue,
                                       inMemoryData, cells[c].key)
                     ELSE @]
          /\ store' = r.store
    /\ raised' = getSnapshotRaises(cells[c], store, mode)
    /\ last' = Op("render", c)
    /\ UNCHANGED <<inMemoryData, callbacks>>

\* The component re-renders with another `key` argument: the storageItem ref
\* is kept, getSnapshot (a new closure over k) reads the item of k, useMemo
\* recomputes because `key` is one of its dependencies, and the subscription
\* is replaced (cleanup of the old one, then callbacks.add of a new one).
ChangeKey(c, k, mode) ==
    /\ cells[c].active
    /\ k # cells[c].key
    /\ LET cell == [cells[c] EXCEPT !.key = k]
           r == getSnapshot(cell, store, inMemoryData, mode)
           value == r.storageItem.parsed
       IN /\ cells' = [cells EXCEPT ![c] =
                 [cell EXCEPT !.storageItem = r.storageItem,
                              !.value = value,
                              !.isPersistent =
                                  isPersistentMemo(value, cell.defaultValue,
                                                   inMemoryData, k)]]
          /\ store' = r.store
          /\ raised' = getSnapshotRaises(cell, store, mode)
    /\ callbacks' = Append(SelectSeq(callbacks, LAMBDA x : x # c), c)
    /\ last' = Op("changeKey", c)
    /\ UNCHANGED inMemoryData

\* setState(v) of instance c
setState(c, v, mode) ==
    /\ cells[c].active
    /\ LET k == cells[c].key
           ok == ~sessionStorage_setItemThrows(mode)
           st == IF ok THEN [store EXCEPT ![k] = stringify(cells[c].serializer, v)]
                       ELSE store
           mem == [inMemoryData EXCEPT ![k] = IF ok THEN NoEntry ELSE v]
           r == triggerCallbacks(k, cells, st, mem, mode)
       IN /\ inMemoryData' = mem
          /\ store' = r.store
          /\ cells' = r.cells
          /\ raised' = triggerCallbacksRaises(k, cells, st, mode)
    /\ last' = Op("setState", c)
    /\ UNCHANGED callbacks

\* The state one setState(v) call of instance c leaves, as a function of the
\* state it starts from (the body of setState above).
setStateResult(c, v, cs, st, mem, mode) ==
    LET k == cs[c].key
        ok == ~sessionStorage_setItemThrows(mode)
        st1 == IF ok THEN [st EXCEPT ![k] = stringify(cs[c].serializer, v)]
                     ELSE st
        mem1 == [mem EXCEPT ![k] = IF ok THEN NoEntry ELSE v]
        r == triggerCallbacks(k, cs, st1, mem1, mode)
    IN [store |-> r.store, inMemoryData |-> mem1, cells |-> r.cells,
        raised |-> triggerCallbacksRaises(k, cs, st1, mode)]

\* Updater functions passed to setState: "next" maps undefined to 0, n to
\* n + 1 and the largest number to undefined; "same" is v => v.
Updaters == {"next", "same"}
Apply(f, v) ==
    IF f = "same" THEN v
    ELSE IF v = undefined THEN Num(0)
    ELSE IF v[2] < MaxNum THEN Num(v[2] + 1)
    ELSE undefined

\* setState(f) with an updater function: f is applied to
\* storageItem.current.parsed
setStateUpdater(c, f, mode) ==
    setState(c, Apply(f, cells[c].storageItem.parsed), mode)

\* Two updater calls made in a row, with no render in between: instance a
\* calls setState(f), then instance b (a itself or another one) calls
\* setState(g).
setStateUpdaterTwice(a, f, b, g, mode1, mode2) ==
    /\ cells[a].active /\ cells[b].active
    /\ \E r1 \in {setStateResult(a, Apply(f, cells[a].storageItem.parsed),
                                  cells, store, inMemoryData, mode1)} :
       \E r2 \in {setStateResult(b, Apply(g, r1.cells[b].storageItem.parsed),
                                  r1.cells, r1.store, r1.inMemoryData, mode2)} :
          /\ store' = r2.store
          /\ inMemoryData' = r2.inMemoryData
          /\ cells' = r2.cells
          /\ raised' = (r1.raised \/ r2.raised)
    /\ last' = Op("setStateTwice", b)
    /\ UNCHANGED callbacks

\* The loop of triggerCallbacks(k) from position i when the callback of
\* instance b, once its onStoreChange has run, calls setState(w) itself: the
\* inner call writes, publishes to every callback and returns, then the outer
\* loop goes on with the callbacks left.
RECURSIVE NestedFrom(_, _, _, _, _, _, _, _, _, _)
NestedFrom(i, cbs, k, cs, st, mem, mode, b, w, mode2) ==
    IF i > Len(cbs)
    THEN [cells |-> cs, store |-> st, inMemoryData |-> mem]
    ELSE IF ~onChangeMatches(cs[cbs[i]].key, k)
    THEN NestedFrom(i + 1, cbs, k, cs, st, mem, mode, b, w, mode2)
    ELSE LET r == onStoreChange(cs, st, mem, mode, cbs[i])
         IN IF cbs[i] = b
            THEN LET n == setStateResult(b, w, r.cells, r.store, mem, mode2)
                     rest == TriggerFrom(i + 1, cbs, k, n.cells, n.store,
                                         n.inMemoryData, mode)
                 IN [cells |-> rest.cells, store |-> rest.store,
                     inMemoryData |-> n.inMemoryData]
            ELSE NestedFrom(i + 1, cbs, k, r.cells, r.store, mem, mode, b, w, mode2)

\* Instance a calls setState(v); while its publish runs, the callback of the
\* subscribed instance b of the same key calls setState(w), once.
setStateNested(a, v, b, w, mode, mode2) ==
    /\ cells[a].active /\ cells[b].active
    /\ cells[a].key = cells[b].key
    /\ \E i \in 1..Len(callbacks) : callbacks[i] = b
    /\ LET k == cells[a].key
           ok == ~sessionStorage_setItemThrows(mode)
           st == IF ok THEN [store EXCEPT ![k] = stringify(cells[a].serializer, v)]
                       ELSE store
           mem == [inMemoryData EXCEPT ![k] = IF ok THEN NoEntry ELSE v]
       IN \E r \in {NestedFrom(1, callbacks, k, cells, st, mem, mode, b, w, mode2)} :
              /\ store' = r.store
              /\ inMemoryData' = r.inMemoryData
              /\ cells' = r.cells
              /\ raised' = (\/ triggerCallbacksRaises(k, cells, st, mode)
                            \/ triggerCallbacksRaises(k, cells, st, mode2))
    /\ last' = Op("setStateNested", b)
    /\ UNCHANGED callbacks

\* A value the serializer cannot stringify (JSON.stringify throws a TypeError
\* on a BigInt or on an object with a circular reference).
Unserializable == <<"bigint", 0>>

\* serializer.stringify(v) throws
stringifyThrows(ser, v) == v = Unserializable

\* setState(v) of instance c for any v: `sessionStorage.setItem(key,
\* stringify(value))` is one statement inside the try, so a throwing stringify
\* ends in the catch like a throwing setItem().
setStateSerialized(c, v, mode) ==
    /\ cells[c].active
    /\ LET k == cells[c].key
           ok == /\ ~stringifyThrows(cells[c].serializer, v)
                 /\ ~sessionStorage_setItemThrows(mode)
           st == IF ok THEN [store EXCEPT ![k] = stringify(cells[c].serializer, v)]
                       ELSE store
           mem == [inMemoryData EXCEPT ![k] = IF ok THEN NoEntry ELSE v]
           r == triggerCallbacks(k, cells, st, mem, mode)
       IN /\ inMemoryData' = mem
          /\ store' = r.store
          /\ cells' = r.cells
          /\ raised' = (\/ goodTryRaises(~ok)
                        \/ triggerCallbacksRaises(k, cells, st, mode))
    /\ last' = Op("setState", c)
    /\ UNCHANGED callbacks

\* removeItem() of instance c
removeItem(c, mode) ==
    /\ cells[c].active
    /\ LET k == cells[c].key
           st == sessionStorage_removeItem(store, mode, k)
           mem == [inMemoryData EXCEPT ![k] = NoEntry]
           r == triggerCallbacks(k, cells, st, mem, mode)
       IN /\ inMemoryData' = mem
          /\ store' = r.store
          /\ cells' = r.cells
          /\ raised' = (\/ goodTryRaises(sessionStorage_accessThrows(mode))
                        \/ triggerCallbacksRaises(k, cells, st, mode))
    /\ last' = Op("removeItem", c)
    /\ UNCHANGED callbacks

\* Another browsing context sharing the storage area sets (or, with null,
\* removes) the item of key k.
ExternalWrite(k, raw) ==
    /\ store[k] # raw
    /\ store' = [store EXCEPT ![k] = raw]
    /\ last' = Op("external", 0)
    /\ raised' = FALSE
    /\ UNCHANGED <<inMemoryData, callbacks, cells>>

\* The window's "storage" listeners, from the i-th on: the onStorage of every
\* instance mounted with storageSync publishes its key when the event's key
\* matches and the event's storage area is sessionStorage.
\* (mutant) onStorage without the comparison of the event's key
onStorageMatches_AnyKey(cell, area, k, mode) ==
    area = "sessionStorage" /\ ~sessionStorage_accessThrows(mode)

\* onStorage's condition:
\* e.storageArea === goodTry(() => sessionStorage) && e.key === key
onStorageMatches(cell, area, k, mode) ==
    /\ area = "sessionStorage" /\ ~sessionStorage_accessThrows(mode)
    /\ k = cell.key

RECURSIVE onStorageFrom(_, _, _, _, _, _, _, _)
onStorageFrom(i, cbs, area, k, cs, st, mem, mode) ==
    IF i > Len(cbs)
    THEN [cells |-> cs, store |-> st]
    ELSE IF cs[cbs[i]].storageSync /\ onStorageMatches(cs[cbs[i]], area, k, mode)
         THEN LET r == triggerCallbacks(cs[cbs[i]].key, cs, st, mem, mode)
              IN onStorageFrom(i + 1, cbs, area, k, r.cells, r.store, mem, mode)
         ELSE onStorageFrom(i + 1, cbs, area, k, cs, st, mem, mode)

\* A "storage" event { key: k, storageArea: area } is dispatched on window.
DispatchStorageEvent(area, k, mode) ==
    /\ \E c \in Cells : cells[c].active /\ cells[c].storageSync
    /\ LET r == onStorageFrom(1, callbacks, area, k, cells, store, inMemoryData, mode)
       IN /\ store' = r.store
          /\ cells' = r.cells
    /\ raised' = (\/ goodTryRaises(sessionStorage_accessThrows(mode))
                  \/ triggerCallbacksRaises(k, cells, store, mode))
    /\ last' = Op("storage", 0)
    /\ UNCHANGED <<inMemoryData, callbacks>>

\* A "storage" event { key: k, storageArea: sessionStorage } is dispatched.
StorageEvent(k, mode) == DispatchStorageEvent("sessionStorage", k, mode)

\* The browser, one key.  The count of seeding writes is not kept here.
Next ==
    \/ /\ \E c \in Cells, d \in Values, m \in StorageModes :
              Mount(c, "k1", d, TRUE, "default", m)
       /\ UNCHANGED <<seedWrites, publish>>
    \/ /\ \E raw \in RawItems \cup {null} : ExternalWrite("k1", raw)
       /\ UNCHANGED <<seedWrites, publish>>
    \/ /\ \E m \in StorageModes : StorageEvent("k1", m)
       /\ UNCHANGED <<seedWrites, publish>>
    \/ /\ \E c \in Cells : Unmount(c)
       /\ UNCHANGED <<seedWrites, publish>>
    \/ /\ \E c \in Cells, m \in StorageModes : Render(c, m)
       /\ UNCHANGED <<seedWrites, publish>>
    \/ /\ \E c \in Cells, v \in Values, m \in StorageModes : setState(c, v, m)
       /\ UNCHANGED <<seedWrites, publish>>
    \/ /\ \E c \in Cells, m \in StorageModes : removeItem(c, m)
       /\ UNCHANGED <<seedWrites, publish>>

Spec == Init /\ [][Next]_vars

\* ------------------------------------------------ counting the seeding ---
\* A handler made a seeding write to key k: the store had no item for k
\* after the handler's own setItem()/removeItem() (store `st`) and has one
\* when the handler returns.  Every Read of a handler sees the item the
\* first seeding write left, so a handler makes at most one.
CountSeedWrites(k, st) ==
    /\ seedWrites' = [seedWrites EXCEPT ![k] =
           IF st[k] = null /\ store'[k] # null /\ @ < MaxSeedWrites THEN @ + 1 ELSE @]
    /\ UNCHANGED publish

\* Cell creations, renders, setValue and removeItem of one process, with the
\* seeding writes counted; no other browsing context touches the store.
NextSeeding ==
    \/ \E c \in Cells, d \in Values, m \in StorageModes :
           Mount(c, "k1", d, TRUE, "default", m) /\ CountSeedWrites("k1", store)
    \/ \E c \in Cells : Unmount(c) /\ UNCHANGED <<seedWrites, publish>>
    \/ \E c \in Cells, m \in StorageModes :
           Render(c, m) /\ CountSeedWrites("k1", store)
    \/ \E c \in Cells, v \in Values, m \in StorageModes :
           /\ setState(c, v, m)
           /\ CountSeedWrites("k1",
                  IF sessionStorage_setItemThrows(m) THEN store
                  ELSE [store EXCEPT !["k1"] = stringify(cells[c].serializer, v)])
    \/ \E c \in Cells, m \in StorageModes :
           /\ removeItem(c, m)
           /\ CountSeedWrites("k1", sessionStorage_removeItem(store, m, "k1"))

SpecSeeding == Init /\ [][NextSeeding]_vars

\* ---------------------------------------------------------- the server ---
\* useSyncExternalStore.getServerSnapshot
getServerSnapshot(cell) == cell.defaultValue

\* ReactDOM.renderToString() of a component that calls the hook with key k
\* and default d; the caller keeps the returned result in slot c.  The server
\* render reads getServerSnapshot and runs no effect: nothing subscribes.
ServerRender(c, k, d) ==
    /\ LET fresh == [NoCell EXCEPT !.active = TRUE, !.key = k, !.defaultValue = d]
           value == getServerSnapshot(fresh)
       IN cells' = [cells EXCEPT ![c] =
              [fresh EXCEPT !.value = value,
                            !.isPersistent = isPersistentMemo(value, d, inMemoryData, k)]]
    /\ last' = Op("render", c)
    /\ raised' = FALSE
    /\ UNCHANGED <<store, inMemoryData, callbacks>>

\* Server execution: there is no `sessionStorage` global, every access to it
\* throws a ReferenceError (storage mode "denied").
NextServer ==
    \/ /\ \E c \in Cells, k \in Keys, d \in Values : ServerRender(c, k, d)
       /\ UNCHANGED <<seedWrites, publish>>
    \/ /\ \E c \in Cells, v \in Values : setState(c, v, "denied")
       /\ UNCHANGED <<seedWrites, publish>>
    \/ /\ \E c \in Cells : removeItem(c, "denied")
       /\ UNCHANGED <<seedWrites, publish>>

SpecServer == Init /\ [][NextServer]_vars

\* ------------------------------------------- torn-down subscriptions ----
\* cell c's onChange is in the `callbacks` set
Subscribed(c) == \E i \in 1..Len(callbacks) : callbacks[i] = c

\* The component of cell c unmounts (the cleanup returned by subscribe runs)
\* while its caller keeps the setState and removeItem of the last result.
TearDown(c) ==
    /\ cells[c].active /\ Subscribed(c)
    /\ callbacks' = SelectSeq(callbacks, LAMBDA x : x # c)
    /\ last' = Op("teardown", c)
    /\ raised' = FALSE
    /\ UNCHANGED <<store, inMemoryData, cells>>

\* The cleanup returned by subscribe runs once more (callbacks.delete of a
\* function that is no longer in the set).
TearDownAgain(c) ==
    /\ cells[c].active /\ ~Subscribed(c)
    /\ callbacks' = SelectSeq(callbacks, LAMBDA x : x # c)
    /\ last' = Op("teardownAgain", c)
    /\ raised' = FALSE
    /\ UNCHANGED <<store, inMemoryData, cells>>

\* One key; setState and removeItem may be called on a torn-down cell, only
\* subscribed cells render, Unmount drops a cell together with its result.
NextTornDown ==
    \/ /\ \E c \in Cells, d \in Values, m \in StorageModes :
              Mount(c, "k1", d, TRUE, "default", m)
       /\ UNCHANGED <<seedWrites, publish>>
    \/ /\ \E c \in Cells : TearDown(c)
       /\ UNCHANGED <<seedWrites, publish>>
    \/ /\ \E c \in Cells : TearDownAgain(c)
       /\ UNCHANGED <<seedWrites, publish>>
    \/ /\ \E c \in Cells : Unmount(c)
       /\ UNCHANGED <<seedWrites, publish>>
    \/ /\ \E c \in Cells, m \in StorageModes : Subscribed(c) /\ Render(c, m)
       /\ UNCHANGED <<seedWrites, publish>>
    \/ /\ \E c \in Cells, v \in Values, m \in StorageModes : setState(c, v, m)
       /\ UNCHANGED <<seedWrites, publish>>
    \/ /\ \E c \in Cells, m \in StorageModes : removeItem(c, m)
       /\ UNCHANGED <<seedWrites, publish>>

SpecTornDown == Init /\ [][NextTornDown]_vars

\* --------------------------------------------------- storage events ----
\* One key for the cells, created with or without storageSync; other
\* browsing contexts write the store; "storage" events arrive for either
\* key and either storage area.  Cells stay mounted and nothing is removed.
NextSync ==
    \/ /\ \E c \in Cells, d \in Values, sync \in BOOLEAN, m \in StorageModes :
              Mount(c, "k1", d, sync, "default", m)
       /\ UNCHANGED <<seedWrites, publish>>
    \/ /\ \E raw \in RawItems \cup {null} : ExternalWrite("k1", raw)
       /\ UNCHANGED <<seedWrites, publish>>
    \/ /\ \E area \in StorageAreas, k \in Keys, m \in StorageModes :
              DispatchStorageEvent(area, k, m)
       /\ UNCHANGED <<seedWrites, publish>>
    \/ /\ \E c \in Cells, m \in StorageModes : Render(c, m)
       /\ UNCHANGED <<seedWrites, publish>>
    \/ /\ \E c \in Cells, v \in Values, m \in StorageModes : setState(c, v, m)
       /\ UNCHANGED <<seedWrites, publish>>

SpecSync == Init /\ [][NextSync]_vars

\* ------------------------------------------------------------ updaters ---
\* Instances of one key that write with updater functions.
NextUpdater ==
    \/ /\ \E c \in Cells, d \in Values, m \in StorageModes :
              Mount(c, "k1", d, TRUE, "default", m)
       /\ UNCHANGED <<seedWrites, publish>>
    \/ /\ \E c \in Cells, m \in StorageModes : Render(c, m)
       /\ UNCHANGED <<seedWrites, publish>>
    \/ /\ \E c \in Cells, v \in Values, m \in StorageModes : setState(c, v, m)
       /\ UNCHANGED <<seedWrites, publish>>
    \/ /\ \E c \in Cells, f \in Updaters, m \in StorageModes :
              setStateUpdater(c, f, m)
       /\ UNCHANGED <<seedWrites, publish>>
    \/ /\ \E a \in Cells, b \in Cells, f \in Updaters, g \in Updaters,
             m1 \in StorageModes, m2 \in StorageModes :
              setStateUpdaterTwice(a, f, b, g, m1, m2)
       /\ UNCHANGED <<seedWrites, publish>>

SpecUpdater == Init /\ [][NextUpdater]_vars

\* ------------------------------------------------------------- the hub ---
\* The `callbacks` set and triggerCallbacks() on their own, one callback
\* invocation per step.  Subscribers are the onChange functions, numbered
\* 1..MaxSubscribers; what an invoked callback does to the set (nothing,
\* callbacks.add, callbacks.delete) is chosen freely.
Subscribers == 1..MaxSubscribers
Registered(cbs, s) == \E i \in 1..Len(cbs) : cbs[i] = s

\* callbacks.add(onChange)
callbacks_add(cbs, s) == IF Registered(cbs, s) THEN cbs ELSE Append(cbs, s)
\* callbacks.delete(onChange)
callbacks_delete(cbs, s) == SelectSeq(cbs, LAMBDA x : x # s)

\* (mutant) `for (const callback of callbacks)`: the loop walks the live set
IterationTarget_Live(snapshot, live) == live

\* `for (const callback of [...callbacks])`: the loop walks the copy made
\* when triggerCallbacks() was entered
IterationTarget(snapshot, live) == snapshot

\* subscribe(onStoreChange), outside of a publish
Subscribe(s) ==
    /\ ~publish.active
    /\ ~Registered(callbacks, s)
    /\ callbacks' = callbacks_add(callbacks, s)
    /\ last' = Op("subscribe", s)
    /\ UNCHANGED <<store, inMemoryData, cells, raised, seedWrites, publish>>

\* the function subscribe() returned, outside of a publish
Unsubscribe(s) ==
    /\ ~publish.active
    /\ Registered(callbacks, s)
    /\ callbacks' = callbacks_delete(callbacks, s)
    /\ last' = Op("unsubscribe", s)
    /\ UNCHANGED <<store, inMemoryData, cells, raised, seedWrites, publish>>

\* triggerCallbacks(key) is entered: `[...callbacks]` is evaluated
PublishBegin ==
    /\ ~publish.active
    /\ publish' = [NoPublish EXCEPT !.active = TRUE, !.begin = callbacks,
                                    !.snapshot = callbacks]
    /\ last' = Op("publishBegin", 0)
    /\ UNCHANGED <<store, inMemoryData, callbacks, cells, raised, seedWrites>>

\* One turn of the loop: the next callback is invoked; `effect` is what the
\* callback does to the set while it runs.  Invocations are counted up to 2.
PublishStep(effect, t) ==
    /\ publish.active
    /\ LET target == IterationTarget(publish.snapshot, callbacks)
       IN /\ publish.pos <= Len(target)
          /\ publish' = [publish EXCEPT
                 !.pos = @ + 1,
                 !.invoked[target[publish.pos]] = IF @ < 2 THEN @ + 1 ELSE @]
    /\ callbacks' = CASE effect = "add" -> callbacks_add(callbacks, t)
                      [] effect = "delete" -> callbacks_delete(callbacks, t)
                      [] OTHER -> callbacks
    /\ last' = Op("publishStep", t)
    /\ UNCHANGED <<store, inMemoryData, cells, raised, seedWrites>>

\* the loop is over, triggerCallbacks() returns
PublishEnd ==
    /\ publish.active
    /\ publish.pos > Len(IterationTarget(publish.snapshot, callbacks))
    /\ publish' = [publish EXCEPT !.active = FALSE]
    /\ last' = Op("publishEnd", 0)
    /\ UNCHANGED <<store, inMemoryData, callbacks, cells, raised, seedWrites>>

NextPublish ==
    \/ \E s \in Subscribers : Subscribe(s)
    \/ \E s \in Subscribers : Unsubscribe(s)
    \/ PublishBegin
    \/ \E effect \in {"none", "add", "delete"}, t \in Subscribers :
           PublishStep(effect, t)
    \/ PublishEnd

SpecPublish == Init /\ [][NextPublish]_vars

\* ------------------------------------------------- setState, stepwise ---
\* One setState(v) call statement by statement: setItem(), the update of
\* inMemoryData, then triggerCallbacks() one callback at a time.  JavaScript
\* runs the handler to completion, so no other handler of this process runs
\* while publish.phase is not "idle"; the storage behaves in one way
\* (publish.mode) for the whole call.

\* (mutant) a successful setItem() leaves the fallback entry where it is
FallbackAfterWrite_KeepsEntry(mem, k, ok, v) ==
    IF ok THEN mem ELSE [mem EXCEPT ![k] = v]

\* inMemoryData.delete(key) after a successful setItem(), inMemoryData.set(key,
\* value) in the catch
FallbackAfterWrite(mem, k, ok, v) == [mem EXCEPT ![k] = IF ok THEN NoEntry ELSE v]

\* try { sessionStorage.setItem(key, stringify(value))
WriteStore(c, v, mode) ==
    /\ publish.phase = "idle"
    /\ cells[c].active
    /\ store' = IF sessionStorage_setItemThrows(mode) THEN store
                ELSE [store EXCEPT ![cells[c].key] = stringify(cells[c].serializer, v)]
    /\ publish' = [NoPublish EXCEPT !.phase = "stored", !.cell = c,
                                    !.value = v, !.mode = mode]
    /\ last' = Op("writeStore", c)
    /\ raised' = FALSE
    /\ UNCHANGED <<inMemoryData, callbacks, cells, seedWrites>>

\* inMemoryData.delete(key) } catch { inMemoryData.set(key, value) }, and the
\* entry of triggerCallbacks(key): `[...callbacks]`
WriteFallback ==
    /\ publish.phase = "stored"
    /\ inMemoryData' = FallbackAfterWrite(inMemoryData, cells[publish.cell].key,
                                          ~sessionStorage_setItemThrows(publish.mode),
                                          publish.value)
    /\ publish' = [publish EXCEPT !.phase = "publishing", !.snapshot = callbacks]
    /\ last' = Op("writeFallback", publish.cell)
    /\ UNCHANGED <<store, callbacks, cells, raised, seedWrites>>

\* one turn of the loop of triggerCallbacks: callback(key) of the next
\* subscriber, whose onChange calls onStoreChange() when the keys match
WriteNotify ==
    /\ publish.phase = "publishing"
    /\ publish.pos <= Len(publish.snapshot)
    /\ LET b == publish.snapshot[publish.pos]
           r == IF onChangeMatches(cells[b].key, cells[publish.cell].key)
                THEN onStoreChange(cells, store, inMemoryData, publish.mode, b)
                ELSE [cells |-> cells, store |-> store]
       IN /\ cells' = r.cells
          /\ store' = r.store
          /\ raised' = (raised \/ getSnapshotRaises(cells[b], store, publish.mode))
          /\ last' = Op("writeNotify", b)
    /\ publish' = [publish EXCEPT !.pos = @ + 1]
    /\ UNCHANGED <<inMemoryData, callbacks, seedWrites>>

\* triggerCallbacks() and setState() return
WriteEnd ==
    /\ publish.phase = "publishing"
    /\ publish.pos > Len(publish.snapshot)
    /\ publish' = NoPublish
    /\ last' = Op("setState", publish.cell)
    /\ UNCHANGED <<store, inMemoryData, callbacks, cells, raised, seedWrites>>

NextWrite ==
    \/ /\ publish.phase = "idle"
       /\ \E c \in Cells, d \in Values, m \in StorageModes :
              Mount(c, "k1", d, TRUE, "default", m)
       /\ UNCHANGED <<seedWrites, publish>>
    \/ /\ publish.phase = "idle"
       /\ \E c \in Cells, m \in StorageModes : Render(c, m)
       /\ UNCHANGED <<seedWrites, publish>>
    \/ \E c \in Cells, v \in Values, m \in StorageModes : WriteStore(c, v, m)
    \/ WriteFallback
    \/ WriteNotify
    \/ WriteEnd

SpecWrite == Init /\ [][NextWrite]_vars

\* ------------------------------------------------------------ two keys ---
\* The first instance on key k1 and the others on k2, with writes, removals
\* and notifications for either key; other contexts set or remove the item
\* "0".
FrameKey(c) == IF c = 1 THEN "k1" ELSE "k2"

NextFrame ==
    \/ /\ \E c \in Cells, d \in Values, m \in StorageModes :
              Mount(c, FrameKey(c), d, TRUE, "default", m)
       /\ UNCHANGED <<seedWrites, publish>>
    \/ /\ \E k \in Keys, raw \in {"0", null} : ExternalWrite(k, raw)
       /\ UNCHANGED <<seedWrites, publish>>
    \/ /\ \E k \in Keys, m \in StorageModes : StorageEvent(k, m)
       /\ UNCHANGED <<seedWrites, publish>>
    \/ /\ \E c \in Cells, v \in Values, m \in StorageModes : setState(c, v, m)
       /\ UNCHANGED <<seedWrites, publish>>
    \/ /\ \E c \in Cells, m \in StorageModes : removeItem(c, m)
       /\ UNCHANGED <<seedWrites, publish>>

SpecFrame == Init /\ [][NextFrame]_vars

\* ----------------------------------------------------------- read only ---
\* Instances that are created, rendered and unmounted but never call
\* setState or removeItem, while other contexts change the store and storage
\* notifications arrive.
NextReadOnly ==
    \/ /\ \E c \in Cells, d \in Values, m \in StorageModes :
              Mount(c, "k1", d, TRUE, "default", m)
       /\ UNCHANGED <<seedWrites, publish>>
    \/ /\ \E raw \in RawItems \cup {null} : ExternalWrite("k1", raw)
       /\ UNCHANGED <<seedWrites, publish>>
    \/ /\ \E m \in StorageModes : StorageEvent("k1", m)
       /\ UNCHANGED <<seedWrites, publish>>
    \/ /\ \E c \in Cells : Unmount(c)
       /\ UNCHANGED <<seedWrites, publish>>
    \/ /\ \E c \in Cells, m \in StorageModes : Render(c, m)
       /\ UNCHANGED <<seedWrites, publish>>

SpecReadOnly == Init /\ [][NextReadOnly]_vars

\* ------------------------------------------------- re-entrant setState ---
\* Instances of one key whose callbacks may call setState during a publish.
NextNested ==
    \/ /\ \E c \in Cells, d \in Values, m \in StorageModes :
              Mount(c, "k1", d, TRUE, "default", m)
       /\ UNCHANGED <<seedWrites, publish>>
    \/ /\ \E c \in Cells, v \in Values, m \in StorageModes : setState(c, v, m)
       /\ UNCHANGED <<seedWrites, publish>>
    \/ /\ \E a \in Cells, b \in Cells, v \in Values, w \in Values,
             m \in StorageModes, m2 \in StorageModes :
              setStateNested(a, v, b, w, m, m2)
       /\ UNCHANGED <<seedWrites, publish>>

SpecNested == Init /\ [][NextNested]_vars

\* ------------------------------------------------ throwing stringify ---
\* Instances of one key that are also given a value their serializer cannot
\* stringify.
NextStringify ==
    \/ /\ \E c \in Cells, d \in Values, m \in StorageModes :
              Mount(c, "k1", d, TRUE, "default", m)
       /\ UNCHANGED <<seedWrites, publish>>
    \/ /\ \E c \in Cells, m \in StorageModes : Render(c, m)
       /\ UNCHANGED <<seedWrites, publish>>
    \/ /\ \E c \in Cells, v \in Values \cup {Unserializable}, m \in StorageModes :
              setStateSerialized(c, v, m)
       /\ UNCHANGED <<seedWrites, publish>>
    \/ /\ \E c \in Cells, m \in StorageModes : removeItem(c, m)
       /\ UNCHANGED <<seedWrites, publish>>

SpecStringify == Init /\ [][NextStringify]_vars

\* ----------------------------------------------------- changing the key ---
\* One instance whose `key` argument changes between renders, over two keys
\* (the cache at stake is the instance's own storageItem ref).
\* ---------------------------------------------------------------------
\* src/storage.ts: the facade over sessionStorage with its own in-memory
\* map (`data`, held here in inMemoryData: no hook instance runs in this
\* specification).

\* parseJSON of storage.ts: JSON.parse(value ?? ''), so a missing item is a
\* thrown SyntaxError
storage_parseJSON(s) ==
    IF s = "undefined"
    THEN [ok |-> TRUE, v |-> undefined]
    ELSE JSONparse(IF s = null THEN "" ELSE s)

\* storage.get(key, defaultValue): the whole body is inside try/catch
storage_get(k, d, mode) ==
    LET has == inMemoryData[k] # NoEntry
        item == storage_parseJSON(store[k])
        threw == ~has /\ (sessionStorage_accessThrows(mode) \/ ~item.ok)
        result == IF has THEN inMemoryData[k] ELSE IF threw THEN d ELSE item.v
    IN /\ last' = [op |-> "storage.get", cell |-> 0, result |-> result]
       /\ raised' = FALSE
       /\ UNCHANGED <<store, inMemoryData, callbacks, cells>>

\* storage.set(key, value): setItem inside try, the map entry in catch
storage_set(k, v, mode) ==
    LET ok == ~sessionStorage_setItemThrows(mode)
    IN /\ store' = IF ok THEN [store EXCEPT ![k] = JSONstringify(v)] ELSE store
       /\ inMemoryData' = [inMemoryData EXCEPT ![k] = IF ok THEN NoEntry ELSE v]
       /\ last' = [op |-> "storage.set", cell |-> 0, result |-> undefined]
       /\ raised' = FALSE
       /\ UNCHANGED <<callbacks, cells>>

\* storage.remove(key) has no try/catch: an error of removeItem leaves it
storage_removeRaises(mode) == sessionStorage_accessThrows(mode)

\* storage.remove(key): data.delete(key), then sessionStorage.removeItem(key)
storage_remove(k, mode) ==
    /\ inMemoryData' = [inMemoryData EXCEPT ![k] = NoEntry]
    /\ store' = sessionStorage_removeItem(store, mode, k)
    /\ last' = [op |-> "storage.remove", cell |-> 0, result |-> undefined]
    /\ raised' = storage_removeRaises(mode)
    /\ UNCHANGED <<callbacks, cells>>

NextFacade ==
    \/ /\ \E k \in Keys, raw \in RawItems \cup {null} : ExternalWrite(k, raw)
       /\ UNCHANGED <<seedWrites, publish>>
    \/ /\ \E k \in Keys, d \in Values, m \in StorageModes : storage_get(k, d, m)
       /\ UNCHANGED <<seedWrites, publish>>
    \/ /\ \E k \in Keys, v \in Values, m \in StorageModes : storage_set(k, v, m)
       /\ UNCHANGED <<seedWrites, publish>>
    \/ /\ \E k \in Keys, m \in StorageModes : storage_remove(k, m)
       /\ UNCHANGED <<seedWrites, publish>>

SpecFacade == Init /\ [][NextFacade]_vars

KeyCells == {1}

NextKeys ==
    \/ /\ \E c \in KeyCells, k \in Keys, d \in Values, m \in StorageModes :
              Mount(c, k, d, TRUE, "default", m)
       /\ UNCHANGED <<seedWrites, publish>>
    \/ /\ \E c \in KeyCells, k \in Keys, m \in StorageModes : ChangeKey(c, k, m)
       /\ UNCHANGED <<seedWrites, publish>>
    \/ /\ \E k \in Keys, raw \in RawItems \cup {null} : ExternalWrite(k, raw)
       /\ UNCHANGED <<seedWrites, publish>>
    \/ /\ \E c \in KeyCells, m \in StorageModes : Render(c, m)
       /\ UNCHANGED <<seedWrites, publish>>
    \/ /\ \E c \in KeyCells, v \in Values, m \in StorageModes : setState(c, v, m)
       /\ UNCHANGED <<seedWrites, publish>>

SpecKeys == Init /\ [][NextKeys]_vars

\* ------------------------------------------------------------- claims ----
\* the serializer writes v as a text that it parses back to v
RoundTrips(ser, v) == parse(ser, stringify(ser, v)) = [ok |-> TRUE, v |-> v]

\* the value the latest Read (getSnapshot) of cell c returned
Observed(c) == cells[c].storageItem.parsed

\* C1: after a cell calls setValue(v), for a v its serializer round-trips,
\* the next Read by that cell (the one the publish triggers) yields v.
C1_SetValueThenRead ==
    [][\A c \in Cells, v \in Values, m \in StorageModes :
          (setState(c, v, m) /\ RoundTrips(cells[c].serializer, v))
              => cells'[c].storageItem.parsed = v]_vars


\* cells a and b are mounted on the same key
SameKey(a, b) == cells[a].active /\ cells[b].active /\ cells[a].key = cells[b].key

\* C2: for two subscribed cells A and B of one key (same serializer, v
\* round-trips), once setValue(v) on A has returned B's snapshot holds v.
C2_WriteReachesOtherCell ==
    [][\A a \in Cells, b \in Cells, v \in Values, m \in StorageModes :
          (/\ setState(a, v, m)
           /\ a # b /\ SameKey(a, b)
           /\ cells[a].serializer = cells[b].serializer
           /\ RoundTrips(cells[b].serializer, v))
              => cells'[b].storageItem.parsed = v]_vars

\* C3: after a setValue or removeItem has completed, all subscribed cells of
\* its key that share the Default Value and the serializer observe the same
\* Value.
C3_CellsAgree ==
    (last.op \in {"setState", "removeItem"}) =>
        \A a \in Cells, b \in Cells :
            (/\ SameKey(a, b) /\ SameKey(a, last.cell)
             /\ cells[a].defaultValue = cells[b].defaultValue
             /\ cells[a].serializer = cells[b].serializer)
                => Observed(a) = Observed(b)

\* C4: if the store's write fails during setValue(v), the next Read by the
\* same cell yields v, and when v is not the Default Value the result the
\* cell returns (once any scheduled re-render has run) has isPersistent false.
C4_FailedWriteFallsBack ==
    [][\A c \in Cells, v \in Values, m \in StorageModes :
          (setState(c, v, m) /\ sessionStorage_setItemThrows(m))
              => /\ cells'[c].storageItem.parsed = v
                 /\ (v # cells[c].defaultValue /\ ~RenderScheduled(c)')
                        => ~cells'[c].isPersistent]_vars

\* C5: when a cell's isPersistent is false, a setValue on its key whose store
\* write succeeds makes isPersistent true in the result the cell returns
\* next: either a re-render is scheduled or the current result says true.
C5_SuccessfulWriteRestoresPersistent ==
    [][\A a \in Cells, b \in Cells, v \in Values :
          (/\ setState(a, v, "ok")
           /\ SameKey(a, b)
           /\ ~cells[b].isPersistent)
              => (cells'[b].isPersistent \/ RenderScheduled(b)')]_vars

\* C6: in every result a cell returns (a render), isPersistent is true
\* exactly when the returned Value is the Default Value or no fallback entry
\* exists for the cell's key.
C6_IsPersistentIsCurrent ==
    \A c \in Cells :
        (last.op \in {"mount", "render"} /\ last.cell = c) =>
            (cells[c].isPersistent <=>
                (\/ cells[c].value = cells[c].defaultValue
                 \/ inMemoryData[cells[c].key] = NoEntry))

\* C7: after removeItem() on a cell of key k, the next Read of every cell of
\* k (the one the publish triggers) yields that cell's Default Value.
C7_RemoveResetsToDefault ==
    [][\A a \in Cells, b \in Cells, m \in StorageModes :
          (removeItem(a, m) /\ SameKey(a, b))
              => cells'[b].storageItem.parsed = cells[b].defaultValue]_vars

\* C8: after removeItem() on key k and the Reads its publish triggers, the
\* store has no Raw Item for k.
C8_RemoveLeavesNoRawItem ==
    [][\A a \in Cells, m \in StorageModes :
          removeItem(a, m) => store'[cells[a].key] = null]_vars

\* C9 as stated: for a key with no Raw Item and no fallback entry, creating
\* a cell with a defined Default Value D makes the store hold stringify(D),
\* and creating a second cell on the key performs no further write.
C9_SeedOnCreate ==
    [][\A c \in Cells, k \in Keys, d \in Values, m \in StorageModes :
          (/\ Mount(c, k, d, TRUE, "default", m)
           /\ store[k] = null /\ inMemoryData[k] = NoEntry
           /\ d # undefined)
              => store'[k] = stringify("default", d)]_vars

\* a cell of key k is mounted whose default is what the store holds for k
SeededBy(a, k) ==
    /\ cells[a].active /\ cells[a].key = k
    /\ cells[a].defaultValue # undefined
    /\ store[k] = stringify(cells[a].serializer, cells[a].defaultValue)

\* C9 (amended): for a key with no Raw Item and no fallback entry, creating
\* a cell with a defined Default Value D while the store accepts the write
\* makes the store hold stringify(D); creating a second cell on that key, in
\* any storage mode and with any default, then performs no further write.
C9_SeedOnCreateWhenWritable ==
    [][\A c \in Cells, k \in Keys, d \in Values, m \in StorageModes :
          /\ (/\ Mount(c, k, d, TRUE, "default", "ok")
              /\ store[k] = null /\ inMemoryData[k] = NoEntry
              /\ d # undefined)
                 => store'[k] = stringify("default", d)
          /\ (/\ Mount(c, k, d, TRUE, "default", m)
              /\ \E a \in Cells : SeededBy(a, k))
                 => store' = store]_vars

\* C9 witness: a second cell has just been created on a key that the first
\* cell, still mounted, seeded with its default.
C9_Witness ==
    /\ last = Op("mount", 2)
    /\ callbacks = <<1, 2>>
    /\ cells[1].defaultValue = Num(0) /\ cells[2].defaultValue = Num(0)
    /\ cells[1].storageItem = [string |-> "0", parsed |-> Num(0)]
    /\ cells[2].storageItem = [string |-> "0", parsed |-> Num(0)]
    /\ store["k1"] = "0" /\ inMemoryData["k1"] = NoEntry

\* C10: default seeding never overwrites: when the store holds a Raw Item
\* for a key, creating a cell, rendering one, or the Reads a storage
\* notification triggers leave that Raw Item unchanged, whatever the item,
\* the Default Value and the storage mode.
C10_SeedingNeverOverwrites ==
    [][\A k \in Keys :
          (store[k] # null /\ last'.op \in {"mount", "render", "storage"})
              => store'[k] = store[k]]_vars

\* C10 witness: a cell with a defined default has just been created on a key
\* for which the store holds an item its serializer cannot parse.
C10_Witness ==
    /\ last = Op("mount", 1)
    /\ cells[1].defaultValue = Num(0)
    /\ cells[1].value = Num(0)
    /\ store["k1"] = "some random string"

\* the operation that produced this state made cell c read its snapshot
\* as a render does
ReadBy(c) == last.op \in {"mount", "render"} /\ last.cell = c

\* C11: in every state where a fallback entry exists for key k, no Read
\* (cell creation, render, or the Reads of a storage notification) performs
\* a seeding write to k.
C11_NoSeedingOverFallback ==
    [][\A k \in Keys :
          (inMemoryData[k] # NoEntry /\ last'.op \in {"mount", "render", "storage"})
              => store'[k] = store[k]]_vars

\* C12: over the whole process lifetime the Default Value is written into
\* the store at most once per key, whatever cell creations, setValue,
\* removeItem and Reads occur.
C12_SeededAtMostOnce == \A k \in Keys : seedWrites[k] <= 1

\* C13: creating and reading (rendering) a cell that has no Default Value
\* never writes to the store.
C13_NoDefaultNoWrite ==
    [][\A c \in Cells, k \in Keys, m \in StorageModes :
          (\/ Mount(c, k, undefined, TRUE, "default", m)
           \/ (Render(c, m) /\ cells[c].defaultValue = undefined))
              => store' = store]_vars

\* C13 witness: a cell without a default has been created and rendered
\* again while the store has no item for its key; the store is still empty.
C13_Witness ==
    /\ last = Op("render", 1)
    /\ cells[1].active /\ cells[1].defaultValue = undefined
    /\ cells[1].value = undefined
    /\ store["k1"] = null /\ inMemoryData["k1"] = NoEntry

\* C14: if the store holds for key k a string the serializer's parse
\* rejects (and, the fallback being authoritative, no fallback entry exists
\* for k), a cell created for k yields its Default Value and nothing raises.
C14_UnparsableYieldsDefault ==
    [][\A c \in Cells, k \in Keys, d \in Values, m \in StorageModes :
          (/\ Mount(c, k, d, TRUE, "default", m)
           /\ store[k] # null /\ ~parse("default", store[k]).ok
           /\ inMemoryData[k] = NoEntry)
              => (cells'[c].value = d /\ ~raised')]_vars

\* C15: for a key with no fallback entry whose Raw Item is absent or cannot
\* be read, a newly created cell's Value is its Default Value, also when the
\* store rejects every write.
C15_NewCellYieldsDefault ==
    [][\A c \in Cells, k \in Keys, d \in Values, m \in StorageModes :
          (/\ Mount(c, k, d, TRUE, "default", m)
           /\ inMemoryData[k] = NoEntry
           /\ (store[k] = null \/ sessionStorage_accessThrows(m)))
              => cells'[c].value = d]_vars

\* C16: no operation (cell creation, render, setValue, removeItem, storage
\* notification) raises to its caller, whatever storage access throws; a
\* setValue whose store write throws leaves its value as the fallback entry.
C16_NeverRaises ==
    [][/\ ~raised'
       /\ \A c \in Cells, v \in Values, m \in StorageModes :
              (setState(c, v, m) /\ sessionStorage_setItemThrows(m))
                  => inMemoryData'[cells[c].key] = v]_vars

\* C16 witness: a setValue(0) whose store write threw has returned without
\* raising, and the value is held by the fallback.
C16_Witness ==
    /\ last = Op("setState", 1)
    /\ ~raised
    /\ inMemoryData["k1"] = Num(0)
    /\ store["k1"] = null

\* C17: while a fallback entry exists for a key, every Read by every cell of
\* that key, also one created after the failed write, returns the fallback
\* entry's value, whatever Raw Item the store holds.
C17_FallbackIsAuthoritative ==
    \A c \in Cells :
        (ReadBy(c) /\ inMemoryData[cells[c].key] # NoEntry)
            => Observed(c) = inMemoryData[cells[c].key]

\* C18: a fallback entry for key k is created only by a setValue on k whose
\* store write fails, and none remains once an operation of this process
\* has written an item for k into the store.
C18_FallbackOnlyWhileUnwritten ==
    [][\A k \in Keys :
          /\ (inMemoryData[k] = NoEntry /\ inMemoryData'[k] # NoEntry)
                 => \E c \in Cells, v \in Values, m \in StorageModes :
                        /\ setState(c, v, m)
                        /\ cells[c].key = k /\ sessionStorage_setItemThrows(m)
          /\ (last'.op # "external" /\ store'[k] # null /\ store'[k] # store[k])
                 => inMemoryData'[k] = NoEntry]_vars

\* C19: on the server a cell's Value is always its Default Value and
\* isPersistent is always true, whatever operations have been called.
C19_ServerIsConstant ==
    \A c \in Cells :
        cells[c].active =>
            (cells[c].value = cells[c].defaultValue /\ cells[c].isPersistent)

\* C19 witness: a server render after a setValue of a value other than the
\* render's default.
C19_Witness ==
    /\ last = Op("render", 1)
    /\ cells[1].key = "k1" /\ cells[1].defaultValue = Num(0)
    /\ inMemoryData["k1"] = undefined

\* C20: on the server setValue is a no-op: it raises nothing, creates no
\* fallback entry and changes no cell.
C20_ServerSetValueIsNoOp ==
    [][\A c \in Cells, v \in Values :
          setState(c, v, "denied")
              => (/\ ~raised'
                  /\ inMemoryData' = inMemoryData
                  /\ cells' = cells)]_vars

\* C21: setValue or removeItem called on a cell whose subscription has been
\* torn down is a safe no-op: it raises nothing and changes neither the
\* store, the fallback map nor the Value any other cell observes.
C21_TornDownCallIsNoOp ==
    [][\A c \in Cells, v \in Values, m \in StorageModes :
          (~Subscribed(c) /\ (setState(c, v, m) \/ removeItem(c, m)))
              => (/\ ~raised'
                  /\ store' = store
                  /\ inMemoryData' = inMemoryData
                  /\ \A b \in Cells \ {c} :
                         cells'[b].storageItem.parsed = cells[b].storageItem.parsed)]_vars

\* the Value a cell is to observe for the item `raw` of the store: the
\* Default Value when there is none or parse rejects it
RawItemValue(cell, raw) ==
    IF raw = null THEN cell.defaultValue
    ELSE LET p == parse(cell.serializer, raw)
         IN IF p.ok THEN p.v ELSE cell.defaultValue

\* C22: when another context has changed the store for key k and the
\* notification for k and the session store is delivered (the store being
\* readable, no fallback entry overriding it, the cells of k created with one
\* Default Value), every subscribed cell of k observes the new store
\* content, the Default Value if the item was removed.
C22_NotificationDeliversStoreContent ==
    [][\A k \in Keys, m \in StorageModes :
          (/\ last'.op = "storage"
           /\ DispatchStorageEvent("sessionStorage", k, m)
           /\ last.op = "external"
           /\ ~sessionStorage_accessThrows(m)
           /\ inMemoryData[k] = NoEntry
           /\ \A a \in Cells, b \in Cells :
                  SameKey(a, b) => cells[a].defaultValue = cells[b].defaultValue)
              => \A c \in Cells :
                     (cells[c].active /\ cells[c].key = k)
                         => cells'[c].storageItem.parsed = RawItemValue(cells[c], store[k])]_vars

\* C23: a storage notification for another storage area, or for a key no
\* cell uses, triggers no publish: no cell, no item of the store and no
\* fallback entry changes.
C23_UnrelatedNotificationIgnored ==
    [][\A area \in StorageAreas, k \in Keys, m \in StorageModes :
          (/\ last'.op = "storage"
           /\ DispatchStorageEvent(area, k, m)
           /\ (area # "sessionStorage"
                   \/ \A c \in Cells : cells[c].active => cells[c].key # k))
              => (cells' = cells /\ store' = store /\ inMemoryData' = inMemoryData)]_vars

\* C23 witness: a notification has been delivered and a mounted cell has not
\* read the item another context left in the store.
C23_Witness ==
    /\ last = Op("storage", 0)
    /\ cells[1].active /\ cells[1].storageSync
    /\ cells[1].storageItem.string = null
    /\ store["k1"] = "0"

\* C24: delivery of a storage notification leaves the Value observed by a
\* cell created with storageSync false unchanged, whatever other cells exist.
C24_NoStorageSyncNoReaction ==
    [][\A area \in StorageAreas, k \in Keys, m \in StorageModes :
          (last'.op = "storage" /\ DispatchStorageEvent(area, k, m))
              => \A c \in Cells :
                     (cells[c].active /\ ~cells[c].storageSync)
                         => cells'[c].storageItem.parsed = cells[c].storageItem.parsed]_vars

\* C25: after a storage notification for a cell's key has been delivered
\* and processed (no re-render of the cell is outstanding; no fallback entry
\* exists for the key), the cell's isPersistent is true.
C25_PersistentAfterNotification ==
    [][\A k \in Keys, m \in StorageModes :
          (/\ last'.op = "storage"
           /\ DispatchStorageEvent("sessionStorage", k, m)
           /\ ~sessionStorage_accessThrows(m)
           /\ inMemoryData[k] = NoEntry)
              => \A c \in Cells :
                     (cells[c].active /\ cells[c].key = k /\ ~RenderScheduled(c)')
                         => cells'[c].isPersistent]_vars


\* C26: with the default serializer a successful setValue(undefined) stores
\* the item "undefined", which is not the absence of an item; a cell created
\* on that key with a defined Default Value while the item is stored (store
\* readable, no fallback entry) reads undefined, not its default, and writes
\* nothing to the store.
C26_UndefinedIsStored ==
    [][/\ \A c \in Cells, m \in StorageModes :
              (setState(c, undefined, m) /\ ~sessionStorage_setItemThrows(m)
                   /\ cells[c].serializer = "default")
                  => (store'[cells[c].key] = "undefined"
                      /\ store'[cells[c].key] # null)
       /\ \A c \in Cells, k \in Keys, d \in Values \ {undefined},
             sync \in BOOLEAN, m \in StorageModes :
              (/\ Mount(c, k, d, sync, "default", m)
               /\ store[k] = "undefined"
               /\ inMemoryData[k] = NoEntry
               /\ ~sessionStorage_accessThrows(m))
                  => (cells'[c].value = undefined /\ store' = store)]_vars

\* a second cell with default 0 has just been created on a key whose stored
\* item is "undefined" (the first cell has written or read it): it renders
\* undefined
C26_Witness ==
    /\ last = Op("mount", 2)
    /\ cells[1].active /\ cells[1].storageItem.string = "undefined"
    /\ cells[2].defaultValue = Num(0)
    /\ cells[2].value = undefined
    /\ store["k1"] = "undefined"
    /\ inMemoryData["k1"] = NoEntry

\* C27: when the key of a cell changes to k (the store working during that
\* render), the Value of its next render is the one that belongs to k: the
\* fallback entry of k if there is one, else the parsed item of k, else the
\* Default Value; nothing cached for the former key is returned.
C27_ValueFollowsKey ==
    [][\A c \in Cells, k \in Keys, m \in StorageModes :
          (/\ last'.op = "changeKey"
           /\ ChangeKey(c, k, m)
           /\ ~sessionStorage_accessThrows(m)
           /\ ~sessionStorage_setItemThrows(m))
              => cells'[c].value =
                     IF inMemoryData[k] # NoEntry THEN inMemoryData[k]
                     ELSE RawItemValue(cells[c], store[k])]_vars

\* C28: setValue(f) of a subscribed cell stores f applied to the Value the
\* cell observes (in the store, or in the fallback map when the write
\* fails), and two updater calls made in a row on that cell compose: the
\* cell then observes g(f(v)).
C28_UpdatersCompose ==
    [][/\ \A c \in Cells, f \in Updaters, m \in StorageModes :
              (last'.op = "setState" /\ setStateUpdater(c, f, m) /\ Subscribed(c))
                  => IF sessionStorage_setItemThrows(m)
                     THEN inMemoryData'[cells[c].key] = Apply(f, Observed(c))
                     ELSE store'[cells[c].key] =
                              stringify(cells[c].serializer, Apply(f, Observed(c)))
       /\ \A c \in Cells, f \in Updaters, g \in Updaters,
             m1 \in StorageModes, m2 \in StorageModes :
              (/\ last'.op = "setStateTwice"
               /\ setStateUpdaterTwice(c, f, c, g, m1, m2)
               /\ Subscribed(c))
                  => Observed(c)' = Apply(g, Apply(f, Observed(c)))]_vars

\* C29: no update is lost between cells of one key: after cell a writes with
\* updater f and then another cell b writes with updater g, every subscribed
\* cell of the key observes g(f(v)), v being the Value a observed.
C29_NoLostUpdate ==
    [][\A a \in Cells, b \in Cells, f \in Updaters, g \in Updaters,
          m1 \in StorageModes, m2 \in StorageModes :
          (/\ last'.op = "setStateTwice"
           /\ a # b
           /\ setStateUpdaterTwice(a, f, b, g, m1, m2)
           /\ SameKey(a, b) /\ Subscribed(a) /\ Subscribed(b))
              => \A c \in Cells :
                     (Subscribed(c) /\ SameKey(a, c))
                         => Observed(c)' = Apply(g, Apply(f, Observed(a)))]_vars

\* C30: a publish invokes every subscriber registered when it began exactly
\* once, whatever the invoked callbacks add to or remove from the set, and
\* it invokes no subscriber added while it runs: during the publish nobody
\* is invoked twice and nobody outside the initial set is invoked, and when
\* it returns every member of the initial set has been invoked.
C30_PublishReachesInitialSubscribers ==
    /\ (publish.active \/ last.op = "publishEnd")
          => \A s \in Subscribers :
                 /\ publish.invoked[s] <= 1
                 /\ ~Registered(publish.begin, s) => publish.invoked[s] = 0
    /\ last.op = "publishEnd"
          => \A s \in Subscribers :
                 Registered(publish.begin, s) => publish.invoked[s] = 1

\* a publish over two subscribers has returned, during which one of them was
\* removed from the set and a third one was added
C30_Witness ==
    /\ last.op = "publishEnd"
    /\ Len(publish.begin) = 2
    /\ \E s \in Subscribers :
           Registered(publish.begin, s) /\ ~Registered(callbacks, s)
    /\ \E s \in Subscribers :
           ~Registered(publish.begin, s) /\ Registered(callbacks, s)

\* C31: when no fallback entry exists for the key of a cell, the Value a Read
\* (a render) of the cell returns is the parsed item the store holds for the
\* key at that moment, the Default Value when there is none or parse rejects
\* it (the store working during the Read), whatever happened before.
C31_ReadMatchesStore ==
    [][\A c \in Cells, m \in StorageModes :
          (/\ last'.op = "render"
           /\ Render(c, m)
           /\ inMemoryData[cells[c].key] = NoEntry
           /\ ~sessionStorage_accessThrows(m)
           /\ ~sessionStorage_setItemThrows(m))
              => Observed(c)' = RawItemValue(cells[c], store[cells[c].key])]_vars

\* C32: when a Read of a cell directly follows a Read of the same cell
\* (nothing has changed the item or the fallback entry of its key in
\* between, and the earlier Read fetched the item the store holds), it
\* returns the same Value and leaves the store as it is.
C32_UnchangedReadIsCached ==
    [][\A c \in Cells, m \in StorageModes :
          (/\ last'.op = "render"
           /\ ReadBy(c)
           /\ Render(c, m)
           /\ ~sessionStorage_accessThrows(m)
           /\ cells[c].storageItem.string = store[cells[c].key])
              => (Observed(c)' = Observed(c) /\ store' = store)]_vars

\* C33: while the publish of a write runs, that is whenever one of its
\* subscribers is about to Read or has just Read, the key of the write either
\* holds the written item with no fallback entry, or has a fallback entry
\* holding the written value; no Read happens between the write to the store
\* and the update of the fallback map.
C33_NoIntermediateStateSeen ==
    /\ publish.phase = "publishing"
          => LET k == cells[publish.cell].key
                 v == publish.value
             IN \/ /\ store[k] = stringify(cells[publish.cell].serializer, v)
                   /\ inMemoryData[k] = NoEntry
                \/ inMemoryData[k] = v
    /\ last.op = "writeNotify" => publish.phase = "publishing"

\* the publish of a successful write of 0 is half way: the first of two
\* subscribers has made its Read and observes 0, the second has not yet
C33_Witness ==
    /\ publish.phase = "publishing"
    /\ publish.pos = 2
    /\ Len(publish.snapshot) = 2
    /\ last.op = "writeNotify"
    /\ inMemoryData["k1"] = NoEntry
    /\ store["k1"] = "0"
    /\ cells[1].storageItem.parsed = Num(0)
    /\ cells[2].storageItem.parsed = undefined

\* the item, the fallback entry and the observed Values of every key other
\* than k are the same before and after the step
OtherKeysUntouched(k) ==
    /\ \A j \in Keys \ {k} : store'[j] = store[j] /\ inMemoryData'[j] = inMemoryData[j]
    /\ \A b \in Cells : (cells[b].active /\ cells[b].key # k) => cells'[b] = cells[b]

\* C34: setValue and removeItem of a cell of key k, and a publish for k (the
\* one a storage notification makes), leave the items, the fallback entries
\* and the cells of every other key as they are.
C34_OtherKeysUntouched ==
    [][/\ \A c \in Cells, v \in Values, m \in StorageModes :
              (last' = Op("setState", c) /\ setState(c, v, m))
                  => OtherKeysUntouched(cells[c].key)
       /\ \A c \in Cells, m \in StorageModes :
              (last' = Op("removeItem", c) /\ removeItem(c, m))
                  => OtherKeysUntouched(cells[c].key)
       /\ \A k \in Keys, m \in StorageModes :
              (last'.op = "storage" /\ StorageEvent(k, m))
                  => OtherKeysUntouched(k)]_vars

\* cell 1 (key k1) has just written while cell 2 (key k2) holds a cache that
\* is out of date (the store holds "0" for k2, the cell has cached null):
\* cell 2 would change if it were invalidated
C34_Witness ==
    /\ last = Op("setState", 1)
    /\ cells[1].active /\ cells[1].key = "k1"
    /\ cells[2].active /\ cells[2].key = "k2"
    /\ store["k2"] = "0"
    /\ cells[2].storageItem.string = null

\* C35: once the unsubscribe of a cell has run, a publish that starts later
\* (the one of a setValue or removeItem of any cell) does not invoke the
\* callback of that cell, so the cell makes no Read; and running the
\* unsubscribe again changes nothing in the set of subscribers and raises
\* nothing.
C35_UnsubscribedIsNotInvoked ==
    [][/\ \A c \in Cells :
              (/\ last'.op \in {"setState", "removeItem"}
               /\ cells[c].active /\ ~Subscribed(c))
                  => cells'[c] = cells[c]
       /\ \A c \in Cells :
              TearDownAgain(c) => (callbacks' = callbacks /\ ~raised')]_vars

\* cell 1 has just written 0 while cell 2, mounted but unsubscribed, still
\* caches another item: a Read would have changed it; cell 1 is subscribed
\* and has made its Read
C35_Witness ==
    /\ last = Op("setState", 1)
    /\ Subscribed(1) /\ cells[1].storageItem.string = "0"
    /\ cells[2].active /\ ~Subscribed(2)
    /\ store["k1"] = "0"
    /\ cells[2].storageItem.string # "0"

\* C36: as long as cells are only created and read, never written, no
\* fallback entry exists, a failed seeding write included, and every cell
\* reports isPersistent true.
C36_ReadOnlyIsPersistent ==
    /\ \A k \in Keys : inMemoryData[k] = NoEntry
    /\ \A c \in Cells : cells[c].active => cells[c].isPersistent

\* a cell with default 0 has just been created on an empty store while the
\* seeding write failed: the store is still empty
C36_Witness ==
    /\ last = Op("mount", 1)
    /\ cells[1].defaultValue = Num(0)
    /\ store["k1"] = null
    /\ inMemoryData["k1"] = NoEntry
    /\ cells[1].isPersistent

\* C37: when the callback of a subscribed cell b, invoked by the publish of a
\* setValue(v) on its key, calls setValue(w) once, both calls return without
\* raising and every subscribed cell of the key then observes w, the value
\* written last.
C37_NestedWriteWins ==
    [][\A a \in Cells, b \in Cells, v \in Values, w \in Values,
          m \in StorageModes, m2 \in StorageModes :
          (last'.op = "setStateNested" /\ setStateNested(a, v, b, w, m, m2))
              => /\ ~raised'
                 /\ \A c \in Cells :
                        (Subscribed(c) /\ SameKey(c, b)
                             /\ RoundTrips(cells[c].serializer, w))
                            => Observed(c)' = w]_vars

\* C38: when stringify throws during setValue(v), setValue raises nothing,
\* the store is left as it is, v becomes the fallback entry of the key, and
\* the subscribers of the key are notified: their Read yields v.
C38_ThrowingStringifyFallsBack ==
    [][\A c \in Cells, m \in StorageModes :
          (last' = Op("setState", c) /\ setStateSerialized(c, Unserializable, m))
              => /\ ~raised'
                 /\ store' = store
                 /\ inMemoryData'[cells[c].key] = Unserializable
                 /\ \A b \in Cells :
                        (Subscribed(b) /\ SameKey(b, c))
                            => Observed(b)' = Unserializable]_vars

\* C39: every operation of the storage facade (get, set, remove) returns
\* normally when the underlying store operation throws; remove swallows
\* the store's error.
C39_FacadeNeverRaises ==
    last.op \in {"storage.get", "storage.set", "storage.remove"} => ~raised
=============================================================================
